---- MODULE Spec2Model ----
(***************************************************************************)
(* ATIP: the simulator data sources of src/atip/sim_data_source.py and the *)
(* record server of src/ioc/atip_server.py.                                *)
(*                                                                         *)
(*   ATElementDataSource  per-element field adapter (get_value/set_value)  *)
(*   ATLatticeDataSource  lattice-level, read-only field adapter           *)
(*   ATAcceleratorData    the ring, the new_changes flag, the published    *)
(*                        twiss data and the recalculation threads         *)
(*   ATIPServer           the in, out, feedback and mirror records and     *)
(*                        the callbacks that set them                      *)
(*                                                                         *)
(* Numbers are floating point values with a SigBits-bit significand and a  *)
(* quantum of 2^-FracBits; a number is written as its count of quanta.     *)
(* The physics engine (at.physics.get_twiss) is external: its result is    *)
(* represented by the lattice state it was computed from.                  *)
(***************************************************************************)
EXTENDS Integers, Sequences, FiniteSets, TLC

VARIABLES
    ring,         \* ATAcceleratorData._ring: the elements, mutable in place
    fields,       \* ATElementDataSource._fields, one adapter per element
    new_changes,  \* ATAcceleratorData.new_changes
    twiss,        \* ATAcceleratorData._twiss: the 4-tuple get_twiss returns
    threads,      \* ATAcceleratorData._thread_number
    wpc,          \* where each recalculate_twiss thread is in its loop
    seen,         \* the lattice as read by a thread's running get_twiss call
    pending,      \* the attribute writes the caller's set_value has still to do
    cur,          \* the caller's call in progress, or its last call
    got,          \* the tuple get_twiss last returned to a reader
    lastSet,      \* the last set_value that returned, until the next set_value
    ncalls,       \* the number of calls made by the caller
    reads,        \* what a second client's get_value calls returned, in order
    srv           \* the ATIPServer: its record dictionaries and record values

vars == <<ring, fields, new_changes, twiss, threads, wpc, seen, pending, cur,
          got, lastSet, ncalls, reads, srv>>

----------------------------------------------------------------------------
(* Bounds of the model *)

\* bits of the significand of a floating point number
SigBits == 3
\* the smallest positive number is 2^-FracBits
FracBits == 2
\* calls the caller makes in one behaviour
MaxCalls == 2
\* largest pool of recalculation threads
MaxThreads == 2
\* get_value calls the second client makes in one behaviour
MaxReads == 2

----------------------------------------------------------------------------
(* Floating point arithmetic: Python's float "/" and "*", round to nearest,  *)
(* ties to even, with the significand cut to SigBits bits.                   *)

RECURSIVE Pow2(_)
Pow2(e) == IF e = 0 THEN 1 ELSE 2 * Pow2(e - 1)

Scale == Pow2(FracBits)

\* no number of the model is as large as this
MaxFl == Pow2(2 * SigBits + FracBits)

Abs(x) == IF x < 0 THEN -x ELSE x

\* the exponent of n: the least k with |n| < 2^(SigBits + k)
RECURSIVE ExpFrom(_, _)
ExpFrom(n, k) == IF Abs(n) < Pow2(SigBits + k) THEN k ELSE ExpFrom(n, k + 1)

ExpOf(n) == ExpFrom(n, 0)

\* n is a floating point number: its significand has at most SigBits bits
IsFl(n) == Abs(n) % Pow2(ExpOf(n)) = 0

\* the floating point number nearest to num/den (num >= 0, den > 0): the two
\* neighbours of the quotient are lo and lo + ulp; ties go to the even
\* significand
RoundPos(num, den) ==
    LET q   == num \div den
        ulp == Pow2(ExpOf(q))
        lo  == (q \div ulp) * ulp
        hi  == lo + ulp
    IN  IF 2 * num < (lo + hi) * den THEN lo
        ELSE IF 2 * num > (lo + hi) * den THEN hi
        ELSE IF (lo \div ulp) % 2 = 0 THEN lo ELSE hi

\* the floating point number nearest to num/den (den > 0)
RoundFl(num, den) == IF num >= 0 THEN RoundPos(num, den) ELSE -RoundPos(-num, den)

\* a / b and a * b on floats, b # 0 for the division
FlDiv(a, b) == IF b > 0 THEN RoundFl(a * Scale, b) ELSE RoundFl(-(a * Scale), -b)

FlMul(a, b) == RoundFl(a * b, Scale)

\* Python's None, which is no number
None == -(MaxFl + 1)

----------------------------------------------------------------------------
(* The lattice: one element of each class the data source tells apart.      *)
(* Every element carries every attribute the field functions touch, as the  *)
(* test fixtures' elements do; K is the quadrupole's own strength.          *)

ElemClass == <<"Quadrupole", "Sextupole", "Drift">>

Elements == DOMAIN ElemClass

\* the lengths a sextupole is built with, in quanta
Lengths == {3}

NewElement(class, length, index) ==
    [Class |-> class, Length |-> length, Index |-> index,
     PolynomA |-> [c \in 0..1 |-> 0], PolynomB |-> [c \in 0..2 |-> 0],
     K |-> 0, Frequency |-> 0, KickAngle |-> [c \in 0..1 |-> 0],
     Energy |-> 4]

\* the values a caller passes to set_value: numbers, and None
Numbers == {0, 7}

Values == Numbers \cup {None}

----------------------------------------------------------------------------
(* What a field function does when called: it raises exc, or returns ret    *)
(* after doing the writes ops, in this order.                               *)

\* a returned value is a tuple: <<>> is None, <<v>> a number, longer an array
\* tw: the call read self._ad.get_twiss()
Raise(exc) == [exc |-> exc, ret |-> <<>>, ops |-> <<>>, tw |-> FALSE]

Return(v) == [exc |-> "", ret |-> v, ops |-> <<>>, tw |-> FALSE]

ReturnTwiss(v) == [exc |-> "", ret |-> v, ops |-> <<>>, tw |-> TRUE]

Write(attr, cell, v) == [attr |-> attr, cell |-> cell, v |-> v]

\* self._ad.new_changes = True
SetFlag == Write("new_changes", 0, 1)

Do(ops) == [exc |-> "", ret |-> <<>>, ops |-> ops, tw |-> FALSE]

\* the element with one attribute write done
ApplyWrite(el, w) ==
    CASE w.attr = "PolynomA"  -> [el EXCEPT !.PolynomA[w.cell] = w.v]
      [] w.attr = "PolynomB"  -> [el EXCEPT !.PolynomB[w.cell] = w.v]
      [] w.attr = "K"         -> [el EXCEPT !.K = w.v]
      [] w.attr = "Frequency" -> [el EXCEPT !.Frequency = w.v]
      [] w.attr = "KickAngle" -> [el EXCEPT !.KickAngle[w.cell] = w.v]

----------------------------------------------------------------------------
(* The physics engine, at.physics.get_twiss(ring, refpts, get_chrom=True):  *)
(* a 4-tuple (twiss at the entrance, tune, chromaticity, twiss at refpts).  *)
(* Each part is kept as the thread that computed it and the lattice it was  *)
(* computed from; `by` is 0 for the constructor's own call.                 *)

TwissParts == 0..3

Physics(by, lat) == [k \in TwissParts |-> [by |-> by, lat |-> lat]]

\* twiss[3]['closed_orbit'][row, col]: the engine's closed orbit, a function
\* of the lattice it was given
ClosedOrbit(part, row, col) ==
    LET el == part.lat[row + 1]
    IN  el.KickAngle[col \div 2] + el.PolynomB[0] + el.PolynomA[0]
          + el.PolynomB[1] + el.K + (col % 2)

----------------------------------------------------------------------------
(* ATElementDataSource *)

\* the field functions, called with the element as it is and value
PolynomA(el, cell, value) ==
    IF value = None
    THEN Return(<<el.PolynomA[cell]>>)
    ELSE Do(<<Write("PolynomA", cell, value), SetFlag>>)

\* PolynomB as it would be with the flag forgotten on the quadrupole's path
PolynomBNoFlag(el, cell, value) ==
    IF value = None
    THEN Return(<<el.PolynomB[cell]>>)
    ELSE IF el.Class = "Quadrupole"
         THEN Do(<<Write("K", 0, value), Write("PolynomB", cell, value)>>)
         ELSE Do(<<Write("PolynomB", cell, value), SetFlag>>)

\* PolynomB as it would be with one signal per attribute written
PolynomBSignalsTwice(el, cell, value) ==
    IF value = None
    THEN Return(<<el.PolynomB[cell]>>)
    ELSE IF el.Class = "Quadrupole"
         THEN Do(<<Write("K", 0, value), SetFlag,
                   Write("PolynomB", cell, value), SetFlag>>)
         ELSE Do(<<Write("PolynomB", cell, value), SetFlag>>)

\* PolynomB as it would be without the quadrupole's write of K
PolynomBNoK(el, cell, value) ==
    IF value = None
    THEN Return(<<el.PolynomB[cell]>>)
    ELSE Do(<<Write("PolynomB", cell, value), SetFlag>>)

PolynomB(el, cell, value) ==
    IF value = None
    THEN Return(<<el.PolynomB[cell]>>)
    ELSE IF el.Class = "Quadrupole"
         THEN Do(<<Write("K", 0, value), Write("PolynomB", cell, value), SetFlag>>)
         ELSE Do(<<Write("PolynomB", cell, value), SetFlag>>)

\* Orbit as it would be with `if not value:` for `if value is None:`
OrbitFalsy(el, tw, cell, value) ==
    LET index == el.Index - 1
    IN  IF value = None \/ value = 0
        THEN ReturnTwiss(<<ClosedOrbit(tw[3], index, cell)>>)
        ELSE Raise("HandleException")

\* Orbit as it would be if it went to the lattice for the closed orbit
OrbitOfRing(el, tw, cell, value) ==
    LET index == el.Index - 1
    IN  IF value = None
        THEN ReturnTwiss(<<ClosedOrbit([by |-> 0, lat |-> [i \in Elements |-> el]],
                                       index, cell)>>)
        ELSE Raise("HandleException")

Orbit(el, tw, cell, value) ==
    LET index == el.Index - 1
    IN  IF value = None
        THEN ReturnTwiss(<<ClosedOrbit(tw[3], index, cell)>>)
        ELSE Raise("HandleException")

Frequency(el, value) ==
    IF value = None
    THEN Return(<<el.Frequency>>)
    ELSE Do(<<Write("Frequency", 0, value), SetFlag>>)

\* x_kick as it would be if it went by the field name alone
x_kickNoDispatch(el, value) ==
    IF value = None
    THEN Return(<<el.KickAngle[0]>>)
    ELSE Do(<<Write("KickAngle", 0, value), SetFlag>>)

x_kick(el, value) ==
    IF el.Class = "Sextupole"
    THEN IF value = None
         THEN Return(<<FlMul(-el.PolynomB[0], el.Length)>>)
         ELSE Do(<<Write("PolynomB", 0, FlDiv(-value, el.Length)), SetFlag>>)
    ELSE IF value = None
         THEN Return(<<el.KickAngle[0]>>)
         ELSE Do(<<Write("KickAngle", 0, value), SetFlag>>)

\* y_kick as it would be writing the x axis of KickAngle
y_kickWrongAxis(el, value) ==
    IF el.Class = "Sextupole"
    THEN IF value = None
         THEN Return(<<FlMul(el.PolynomA[0], el.Length)>>)
         ELSE Do(<<Write("PolynomA", 0, FlDiv(value, el.Length)), SetFlag>>)
    ELSE IF value = None
         THEN Return(<<el.KickAngle[1]>>)
         ELSE Do(<<Write("KickAngle", 0, value), SetFlag>>)

y_kick(el, value) ==
    IF el.Class = "Sextupole"
    THEN IF value = None
         THEN Return(<<FlMul(el.PolynomA[0], el.Length)>>)
         ELSE Do(<<Write("PolynomA", 0, FlDiv(value, el.Length)), SetFlag>>)
    ELSE IF value = None
         THEN Return(<<el.KickAngle[1]>>)
         ELSE Do(<<Write("KickAngle", 1, value), SetFlag>>)

\* the keys of self._field_functions
FieldFunctionKeys == {"a1", "b0", "b1", "b2", "x", "y", "f", "x_kick", "y_kick"}

\* self._field_functions[field](value=value)
FieldFunction(field, el, tw, value) ==
    CASE field = "a1"     -> PolynomA(el, 1, value)
      [] field = "b0"     -> PolynomB(el, 0, value)
      [] field = "b1"     -> PolynomB(el, 1, value)
      [] field = "b2"     -> PolynomB(el, 2, value)
      [] field = "x"      -> Orbit(el, tw, 0, value)
      [] field = "y"      -> Orbit(el, tw, 2, value)
      [] field = "f"      -> Frequency(el, value)
      [] field = "x_kick" -> x_kick(el, value)
      [] field = "y_kick" -> y_kick(el, value)
      [] OTHER            -> Raise("KeyError")

get_value(declared, field, el, tw) ==
    IF field \in declared
    THEN FieldFunction(field, el, tw, None)
    ELSE Raise("FieldException")

\* set_value as it would be without the test of self._fields
set_value_unchecked(declared, field, el, tw, value) ==
    [FieldFunction(field, el, tw, value) EXCEPT !.ret = <<>>]

\* set_value returns nothing, whatever the field function returns
set_value(declared, field, el, tw, value) ==
    IF field \in declared
    THEN [FieldFunction(field, el, tw, value) EXCEPT !.ret = <<>>]
    ELSE Raise("FieldException")

\* get_fields as it would be if it returned the keys of the dispatch table
get_fieldsOfTable(declared) == Return(<<FieldFunctionKeys>>)

\* get_fields returns self._fields, the object the constructor was given
get_fields(declared) == Return(<<declared>>)

----------------------------------------------------------------------------
(* ATLatticeDataSource *)

\* the engine's tune, chromaticity and per-element optics: functions of the
\* lattice it was given
EngineScalar(part, field) ==
    LET el == part.lat[1 + field]
    IN  el.K + el.PolynomB[1] + el.PolynomB[2] + el.PolynomA[1] + el.Frequency

EngineArray(part) == [i \in DOMAIN part.lat |-> EngineScalar(part, i - 1)]

read_closed_orbit(tw, field) ==
    ReturnTwiss([i \in DOMAIN tw[3].lat |-> ClosedOrbit(tw[3], i - 1, field)])

read_twiss3(tw, field) == ReturnTwiss(EngineArray(tw[3]))

read_tune(tw, field) == ReturnTwiss(<<EngineScalar(tw[1], field) % Scale>>)

read_chrom(tw, field) == ReturnTwiss(<<EngineScalar(tw[2], field)>>)

get_energy(lat) == Return(<<lat[1].Energy>>)

\* the keys of self._field2twiss
Field2TwissKeys ==
    {"x", "phase_x", "y", "phase_y", "m44", "s_position", "alpha", "beta",
     "mu", "dispersion", "tune_x", "tune_y", "chromaticity_x",
     "chromaticity_y", "energy"}

lattice_get_value(field, lat, tw) ==
    CASE field = "x"              -> read_closed_orbit(tw, 0)
      [] field = "phase_x"        -> read_closed_orbit(tw, 1)
      [] field = "y"              -> read_closed_orbit(tw, 2)
      [] field = "phase_y"        -> read_closed_orbit(tw, 3)
      [] field \in {"m44", "s_position", "alpha", "beta", "mu", "dispersion"}
                                  -> read_twiss3(tw, field)
      [] field = "tune_x"         -> read_tune(tw, 0)
      [] field = "tune_y"         -> read_tune(tw, 1)
      [] field = "chromaticity_x" -> read_chrom(tw, 0)
      [] field = "chromaticity_y" -> read_chrom(tw, 1)
      [] field = "energy"         -> get_energy(lat)
      [] OTHER                    -> Raise("FieldException")

\* def set_value(self, field): called with the arguments args after self.
\* A call that does not fit the signature raises TypeError before the body runs.
lattice_set_value(args) ==
    IF Len(args) = 1 THEN Raise("HandleException") ELSE Raise("TypeError")

----------------------------------------------------------------------------
(* ATAcceleratorData and its recalculate_twiss threads *)

Threads == 1..MaxThreads

NoLattice == <<>>

\* the threads inside at.physics.get_twiss
Computing == {t \in Threads : wpc[t] = "get_twiss"}

\* `if self.new_changes is True:` found true; get_twiss starts to read the ring
Check(t) ==
    /\ wpc[t] = "check"
    /\ new_changes = TRUE
    /\ wpc' = [wpc EXCEPT ![t] = "get_twiss"]
    /\ seen' = [seen EXCEPT ![t] = ring]
    /\ UNCHANGED <<ring, fields, new_changes, twiss, threads, pending, cur, got,
                   lastSet, ncalls, reads, srv>>

\* the result stored into the published tuple one part at a time
GetTwissReturnsInParts(t) ==
    /\ wpc[t] = "get_twiss"
    /\ twiss' = [k \in TwissParts |->
                    IF k = 3 THEN twiss[3] ELSE Physics(t, seen[t])[k]]
    /\ wpc' = [wpc EXCEPT ![t] = "clear"]
    /\ seen' = [seen EXCEPT ![t] = NoLattice]
    /\ UNCHANGED <<ring, fields, new_changes, threads, pending, cur, got,
                   lastSet, ncalls, reads, srv>>

\* get_twiss returns and `self._twiss = ...` stores its result
GetTwissReturns(t) ==
    /\ wpc[t] = "get_twiss"
    /\ twiss' = Physics(t, seen[t])
    /\ wpc' = [wpc EXCEPT ![t] = "clear"]
    /\ seen' = [seen EXCEPT ![t] = NoLattice]
    /\ UNCHANGED <<ring, fields, new_changes, threads, pending, cur, got,
                   lastSet, ncalls, reads, srv>>

\* the flag cleared on the way out of a failed attempt
GetTwissRaisesClearsFlag(t) ==
    /\ wpc[t] = "get_twiss"
    /\ wpc' = [wpc EXCEPT ![t] = "dead"]
    /\ seen' = [seen EXCEPT ![t] = NoLattice]
    /\ new_changes' = FALSE
    /\ UNCHANGED <<ring, fields, twiss, threads, pending, cur, got,
                   lastSet, ncalls, reads, srv>>

\* get_twiss raises: nothing in recalculate_twiss catches it, the thread ends
GetTwissRaises(t) ==
    /\ wpc[t] = "get_twiss"
    /\ wpc' = [wpc EXCEPT ![t] = "dead"]
    /\ seen' = [seen EXCEPT ![t] = NoLattice]
    /\ UNCHANGED <<ring, fields, new_changes, twiss, threads, pending, cur, got,
                   lastSet, ncalls, reads, srv>>

\* the end of the loop body as it would be without the assignment to the flag
ClearKeepsFlag(t) ==
    /\ wpc[t] = "clear"
    /\ wpc' = [wpc EXCEPT ![t] = "check"]
    /\ UNCHANGED <<ring, fields, new_changes, twiss, threads, seen, pending, cur,
                   got, lastSet, ncalls, reads, srv>>

\* `self.new_changes = False`, and back to the top of the loop
Clear(t) ==
    /\ wpc[t] = "clear"
    /\ new_changes' = FALSE
    /\ wpc' = [wpc EXCEPT ![t] = "check"]
    /\ UNCHANGED <<ring, fields, twiss, threads, seen, pending, cur, got,
                   lastSet, ncalls, reads, srv>>

----------------------------------------------------------------------------
(* The caller: one thread that calls into the data sources *)

\* landed: the threads that had stored their result and not yet cleared the
\* flag when the call's `self._ad.new_changes = True` was done
NoCall == [op |-> "none", target |-> 0, field |-> "", arg |-> None,
           nargs |-> 0, status |-> "none", exc |-> "", ret |-> <<>>,
           signals |-> 0, writes |-> 0, landed |-> {}]

NoSet == [target |-> 0, field |-> "", arg |-> None]

\* one write of a field function.  An attribute write lands while the threads
\* in Computing are reading the ring, unsynchronised: each of them has read
\* the attribute before the write or reads it after.
Perform(e, w) ==
    IF w.attr = "new_changes"
    THEN /\ new_changes' = TRUE
         /\ UNCHANGED <<ring, seen>>
    ELSE /\ ring' = [ring EXCEPT ![e] = ApplyWrite(@, w)]
         /\ \E S \in SUBSET Computing :
                seen' = [t \in Threads |->
                            IF t \in S
                            THEN [seen[t] EXCEPT ![e] = ApplyWrite(@, w)]
                            ELSE seen[t]]
         /\ UNCHANGED new_changes

\* the call has begun: it has raised or returned at once, or it has writes to
\* do, which CallStep does one by one
Begin(n, op, target, field, arg, nargs, o) ==
    LET c == [op |-> op, target |-> target, field |-> field,
              arg |-> arg, nargs |-> nargs,
              status |-> IF o.exc # "" THEN "raised"
                         ELSE IF o.ops = <<>> THEN "returned" ELSE "running",
              exc |-> o.exc, ret |-> o.ret, signals |-> 0, writes |-> 0,
              landed |-> {}]
    IN  /\ ncalls' = n
        /\ got' = IF o.tw THEN twiss ELSE got
        /\ cur' = c
        /\ pending' = o.ops
        /\ lastSet' = IF op # "set" THEN lastSet
                      ELSE IF c.status = "returned" /\ target \in Elements
                           THEN [target |-> target, field |-> field, arg |-> arg]
                           ELSE NoSet
        /\ UNCHANGED <<ring, fields, new_changes, twiss, threads, wpc, seen,
                       reads, srv>>

\* element data source e: get_value(field)
ElementGet(e, field) ==
    /\ cur.status # "running"
    /\ ncalls < MaxCalls
    /\ Begin(ncalls + 1, "get", e, field, None, 1,
             get_value(fields[e], field, ring[e], twiss))

\* set_value as it would be if it waited for the recalculation in progress
ElementSetWaits(e, field, value) ==
    /\ Computing = {}
    /\ cur.status # "running"
    /\ ncalls < MaxCalls
    /\ Begin(ncalls + 1, "set", e, field, value, 2,
             set_value(fields[e], field, ring[e], twiss, value))

\* element data source e: set_value(field, value)
ElementSet(e, field, value) ==
    /\ cur.status # "running"
    /\ ncalls < MaxCalls
    /\ Begin(ncalls + 1, "set", e, field, value, 2,
             set_value(fields[e], field, ring[e], twiss, value))

\* element data source e: get_fields()
GetFields(e) ==
    /\ cur.status # "running"
    /\ ncalls < MaxCalls
    /\ Begin(ncalls + 1, "get_fields", e, "", None, 0, get_fields(fields[e]))

\* the next write of the set_value in progress; after the last one it returns
CallStep ==
    /\ cur.status = "running"
    /\ LET w == Head(pending)
           last == Tail(pending) = <<>>
       IN  /\ Perform(cur.target, w)
           /\ pending' = Tail(pending)
           /\ cur' = [cur EXCEPT
                        !.status = IF last THEN "returned" ELSE "running",
                        !.signals = IF w.attr = "new_changes" THEN @ + 1 ELSE @,
                        !.writes = IF w.attr = "new_changes" THEN @ ELSE @ + 1,
                        !.landed = IF w.attr = "new_changes"
                                   THEN {t \in Threads : wpc[t] = "clear"}
                                   ELSE @]
           /\ lastSet' = IF last
                         THEN [target |-> cur.target, field |-> cur.field,
                               arg |-> cur.arg]
                         ELSE lastSet
    /\ UNCHANGED <<fields, twiss, threads, wpc, got, ncalls, reads, srv>>

\* lattice data source: get_value(field)
LatticeGet(field) ==
    /\ cur.status # "running"
    /\ ncalls < MaxCalls
    /\ Begin(ncalls + 1, "get", 0, field, None, 1,
             lattice_get_value(field, ring, twiss))

\* lattice data source: set_value(*args)
LatticeSet(args) ==
    /\ cur.status # "running"
    /\ ncalls < MaxCalls
    /\ Begin(ncalls + 1, "set", 0, args[1], IF Len(args) > 1 THEN args[2] ELSE None,
             Len(args), lattice_set_value(args))

\* the accelerator data: get_twiss()
GetTwiss ==
    /\ cur.status # "running"
    /\ ncalls < MaxCalls
    /\ Begin(ncalls + 1, "get_twiss", 0, "", None, 0, ReturnTwiss(<<>>))

----------------------------------------------------------------------------
(* A second client, which only reads: get_value(field) on the lattice data  *)
(* source (target 0) or on an element's.  get_value writes nothing and      *)
(* takes no lock; what it returned is kept with the call count of the       *)
(* caller, whether a set_value of the caller was in progress, and the tuple *)
(* get_twiss returned at the time.                                          *)

ReadOutcome(target, field) ==
    IF target = 0
    THEN lattice_get_value(field, ring, twiss)
    ELSE get_value(fields[target], field, ring[target], twiss)

\* get_value as it would be if it consumed what it read
ReadAndReset(target, field) ==
    /\ Len(reads) < MaxReads
    /\ LET o == ReadOutcome(target, field)
       IN  reads' = Append(reads, [target |-> target, field |-> field,
                                   exc |-> o.exc, ret |-> o.ret, at |-> ncalls,
                                   busy |-> (cur.status = "running"),
                                   tw |-> twiss])
    /\ ring' = IF target \in Elements
               THEN [ring EXCEPT ![target] = NewElement(@.Class, @.Length, @.Index)]
               ELSE ring
    /\ UNCHANGED <<fields, new_changes, twiss, threads, wpc, seen, pending, cur,
                   got, lastSet, ncalls, srv>>

Read(target, field) ==
    /\ Len(reads) < MaxReads
    /\ LET o == ReadOutcome(target, field)
       IN  reads' = Append(reads, [target |-> target, field |-> field,
                                   exc |-> o.exc, ret |-> o.ret, at |-> ncalls,
                                   busy |-> (cur.status = "running"),
                                   tw |-> twiss])
    /\ UNCHANGED <<ring, fields, new_changes, twiss, threads, wpc, seen, pending,
                   cur, got, lastSet, ncalls, srv>>

----------------------------------------------------------------------------
(* The state after construction *)

\* names a caller may ask for: the dispatch table's, and one it lacks
FieldNames == FieldFunctionKeys \cup {"a0"}

\* what an adapter is constructed with as `fields`
AllFields == FieldFunctionKeys \cup {"a0"}

FieldProfiles == {[e \in Elements |-> AllFields], [e \in Elements |-> {"x", "f"}]}

DataInit(T, L, F) ==
    /\ threads \in T
    /\ \E len \in L :
          ring = [e \in Elements |->
                    NewElement(ElemClass[e],
                               IF ElemClass[e] = "Sextupole" THEN len ELSE Scale,
                               e)]
    /\ fields \in F
    /\ new_changes = TRUE
    /\ twiss = Physics(0, ring)
    /\ wpc = [t \in Threads |-> IF t <= threads THEN "check" ELSE "off"]
    /\ seen = [t \in Threads |-> NoLattice]
    /\ pending = <<>>
    /\ cur = NoCall
    /\ got = twiss
    /\ lastSet = NoSet
    /\ ncalls = 0
    /\ reads = <<>>

\* no ATIPServer has been constructed
NoServer == [pc |-> "off"]

InitWith(T, L, F) == DataInit(T, L, F) /\ srv = NoServer

----------------------------------------------------------------------------
(* The data sources called one call after another, no thread scheduled *)

AdapterInit == InitWith({1}, Lengths, FieldProfiles)

AdapterNext ==
    \/ \E e \in Elements, f \in FieldNames : ElementGet(e, f)
    \/ \E e \in Elements, f \in FieldNames, v \in Values : ElementSet(e, f, v)
    \/ CallStep
    \/ \E f \in {"x", "tune_x", "energy", "r"} : LatticeGet(f)
    \/ \E f \in {"x", "r"}, v \in Values : LatticeSet(<<f, v>>)
    \/ \E f \in {"x", "r"} : LatticeSet(<<f>>)
    \/ \E e \in Elements : GetFields(e)

AdapterSpec == AdapterInit /\ [][AdapterNext]_vars

----------------------------------------------------------------------------
(* The data sources and the recalculation threads together *)

\* the calls the caller makes while the threads run
EngineElements == {e \in Elements : ElemClass[e] = "Quadrupole"}

EngineFields == {"b1", "x"}

EngineValues == {7}

Init == InitWith(1..MaxThreads, Lengths, {[e \in Elements |-> AllFields]})

Next ==
    \/ \E t \in Threads : Check(t)
    \/ \E t \in Threads : GetTwissReturns(t)
    \/ \E t \in Threads : GetTwissRaises(t)
    \/ \E t \in Threads : Clear(t)
    \/ \E e \in EngineElements, f \in EngineFields : ElementGet(e, f)
    \/ \E e \in EngineElements, f \in EngineFields, v \in EngineValues :
          ElementSet(e, f, v)
    \/ CallStep
    \/ GetTwiss

Spec == Init /\ [][Next]_vars

\* a thread that can take a step of its loop takes it, and so does the caller
\* inside set_value
ThreadStep(t) == Check(t) \/ GetTwissReturns(t) \/ GetTwissRaises(t) \/ Clear(t)

Fairness == /\ \A t \in Threads : WF_vars(ThreadStep(t))
            /\ WF_vars(CallStep)

FairSpec == Init /\ [][Next]_vars /\ Fairness

----------------------------------------------------------------------------
(* Start-up: the threads and readers, no set_value, an engine that succeeds *)

StartupFields == {"b1", "x", "y"}

StartupInit == InitWith(1..MaxThreads, Lengths, {[e \in Elements |-> AllFields]})

StartupNext ==
    \/ \E t \in Threads : Check(t)
    \/ \E t \in Threads : GetTwissReturns(t)
    \/ \E t \in Threads : Clear(t)
    \/ \E e \in Elements, f \in StartupFields : ElementGet(e, f)
    \/ GetTwiss

\* the loop of a thread whose get_twiss calls return
StartupStep(t) == Check(t) \/ GetTwissReturns(t) \/ Clear(t)

\* the started threads run for as long as the process does
StartupFairness == \A t \in Threads : WF_vars(StartupStep(t))

StartupSpec == StartupInit /\ [][StartupNext]_vars /\ StartupFairness

----------------------------------------------------------------------------
(* A writer, a reader and the recalculation threads *)

\* what the reader reads: an element's attribute, its orbit, and the lattice's
\* tune
ReadTargets == {<<1, "b1">>, <<1, "x">>, <<0, "tune_x">>}

ReadNext ==
    \/ \E t \in Threads : Check(t)
    \/ \E t \in Threads : GetTwissReturns(t)
    \/ \E t \in Threads : GetTwissRaises(t)
    \/ \E t \in Threads : Clear(t)
    \/ \E e \in EngineElements, v \in EngineValues : ElementSet(e, "b1", v)
    \/ CallStep
    \/ \E r \in ReadTargets :
          /\ IF Len(reads) = 0 THEN TRUE
             ELSE reads[1].target = r[1] /\ reads[1].field = r[2]
          /\ Read(r[1], r[2])

\* one recalculation thread; the reader polls one field
ReadInit == InitWith({1}, Lengths, {[e \in Elements |-> AllFields]})

ReadSpec == ReadInit /\ [][ReadNext]_vars

----------------------------------------------------------------------------
(* ATIPServer (src/ioc/atip_server.py): the records of the soft IOC.        *)
(* A record is known by its name: the handle ("RB" in record, "SP" out      *)
(* record, "FB" feedback record, "MIRROR" mirror record), the element index *)
(* (0 for the lattice) and the field.  The Pytac lattice hands get_value,   *)
(* set_value and get_fields on to the simulator data sources; what it says  *)
(* of an element (its type_, whether a field has a setpoint PV) is          *)
(* configuration, fixed when the server is constructed.                     *)

\* len(self.lattice)
NElements == Len(ElemClass)

\* the order in which an element's fields are gone through
FieldOrder == <<"a1", "b0", "b1", "b2", "x", "y", "f", "x_kick", "y_kick", "a0">>

\* the lattice fields that have a PV
LatticeRecordFields == <<"tune_x">>

\* configurations: the elements whose type_ is 'BEND'
BendSets == {{}, {3}, {1, 3}}

\* configurations: the fields for which get_pv_name(field, pytac.SP) does not
\* raise HandleException
SetpointFields == {{"b0", "b1", "f"}, {"b0", "b1", "x"}, {}}

\* the fields the element data sources are constructed with
ServerFields == {[e \in Elements |-> {"b0", "b1", "x"}],
                 [e \in Elements |-> {"x", "f"}]}

\* the feedback .csv files: no file, or the (index, field) of their lines
FeedbackCsvs == {[given |-> FALSE, lines |-> {}],
                 [given |-> TRUE, lines |-> {<<1, "enabled">>}]}

\* the mirror .csv files: no file, or the `original` names of their lines
MirrorCsvs == {[given |-> FALSE, lines |-> {}],
               [given |-> TRUE, lines |-> {<<"RB", 1, "b1">>}],
               [given |-> TRUE, lines |-> {<<"RB", 3, "b0">>}]}

NoCallback == [op |-> "none", key |-> <<>>, value |-> 0, exc |-> ""]

\* the object before __init__ calls _create_records
NewServer(bends, sp) ==
    [pc |-> "create_records", bends |-> bends, sp |-> sp, exc |-> "",
     in_records |-> <<>>, out_records |-> <<>>, rb_only |-> <<>>,
     feedback |-> <<>>, mirrored |-> <<>>, value |-> <<>>,
     n |-> 0, last |-> NoCallback]

\* one pass of `for field in element.get_fields()[pytac.SIM]`, as it would be
\* if every in record were put on the readback-only list
ElementFieldAlwaysReadback(st, e, f) ==
    LET o   == get_value(fields[e], f, ring[e], twiss)
        in  == <<"RB", e, f>>
        out == <<"SP", e, f>>
    IN  IF st.exc # "" THEN st
        ELSE IF o.exc # "" THEN [st EXCEPT !.exc = o.exc]
        ELSE LET s1 == [st EXCEPT !.in_records = (in :> <<e, f>>) @@ @,
                                  !.value = (in :> o.ret) @@ @,
                                  !.rb_only = Append(@, in)]
             IN  IF f \notin st.sp
                 THEN s1
                 ELSE [s1 EXCEPT !.out_records = (out :> in) @@ @,
                                 !.value = (out :> o.ret) @@ @]

\* one pass of `for field in element.get_fields()[pytac.SIM]`
ElementField(st, e, f) ==
    LET o   == get_value(fields[e], f, ring[e], twiss)
        in  == <<"RB", e, f>>
        out == <<"SP", e, f>>
    IN  IF st.exc # "" THEN st
        ELSE IF o.exc # "" THEN [st EXCEPT !.exc = o.exc]
        ELSE LET s1 == [st EXCEPT !.in_records = (in :> <<e, f>>) @@ @,
                                  !.value = (in :> o.ret) @@ @]
             IN  IF f \notin st.sp
                 THEN [s1 EXCEPT !.rb_only = Append(@, in)]
                 ELSE [s1 EXCEPT !.out_records = (out :> in) @@ @,
                                 !.value = (out :> o.ret) @@ @]

RECURSIVE ElementFields(_, _, _)
ElementFields(st, e, fs) ==
    IF fs = <<>> THEN st
    ELSE ElementFields(ElementField(st, e, Head(fs)), e, Tail(fs))

\* the first bend makes the one in/out pair all bends share; get_pv_name for
\* its setpoint is called outside any try
BendRecords(st, e) ==
    LET o   == get_value(fields[e], "b0", ring[e], twiss)
        in  == <<"RB", e, "b0">>
        out == <<"SP", e, "b0">>
    IN  IF o.exc # "" THEN [st EXCEPT !.exc = o.exc]
        ELSE IF "b0" \notin st.sp THEN [st EXCEPT !.exc = "HandleException"]
        ELSE [st EXCEPT !.in_records = (in :> <<e, "b0">>) @@ @,
                        !.out_records = (out :> in) @@ @,
                        !.value = (in :> o.ret) @@ (out :> o.ret) @@ @,
                        !.bend_set = TRUE]

\* `for element in self.lattice`, from element e on
RECURSIVE ElementRecords(_, _)
ElementRecords(st, e) ==
    IF e > NElements \/ st.exc # "" THEN st
    ELSE IF e \in st.bends
         THEN ElementRecords(IF st.bend_set THEN st ELSE BendRecords(st, e), e + 1)
         ELSE ElementRecords(
                  ElementFields(st, e,
                      SelectSeq(FieldOrder, LAMBDA f : f \in fields[e])),
                  e + 1)

\* `for field in set(lat_fields[pytac.LIVE]) & set(lat_fields[pytac.SIM])`
RECURSIVE LatticeRecords(_, _)
LatticeRecords(st, fs) ==
    IF fs = <<>> \/ st.exc # "" THEN st
    ELSE LET f  == Head(fs)
             o  == lattice_get_value(f, ring, twiss)
             in == <<"RB", 0, f>>
         IN  LatticeRecords(
                 IF o.exc # "" THEN [st EXCEPT !.exc = o.exc]
                 ELSE [st EXCEPT !.in_records = (in :> <<0, f>>) @@ @,
                                 !.value = (in :> o.ret) @@ @,
                                 !.rb_only = Append(@, in)],
                 Tail(fs))

\* the fields of srv, that is all of st but the loop's bend_set
ServerOf(st, pc) ==
    [pc |-> pc, bends |-> st.bends, sp |-> st.sp, exc |-> st.exc,
     in_records |-> st.in_records, out_records |-> st.out_records,
     rb_only |-> st.rb_only, feedback |-> st.feedback,
     mirrored |-> st.mirrored, value |-> st.value, n |-> st.n,
     last |-> st.last]

WithBendSet(sv) ==
    [pc |-> sv.pc, bends |-> sv.bends, sp |-> sv.sp, exc |-> sv.exc,
     in_records |-> sv.in_records, out_records |-> sv.out_records,
     rb_only |-> sv.rb_only, feedback |-> sv.feedback,
     mirrored |-> sv.mirrored, value |-> sv.value, n |-> sv.n,
     last |-> sv.last, bend_set |-> FALSE]

\* _create_records(limits_csv): an exception leaves __init__, and no server
CreateRecords ==
    /\ srv.pc = "create_records"
    /\ LET st == LatticeRecords(ElementRecords(WithBendSet(srv), 1),
                                LatticeRecordFields)
       IN  srv' = ServerOf(st, IF st.exc # "" THEN "failed" ELSE "create_feedback")
    /\ UNCHANGED <<ring, fields, new_changes, twiss, threads, wpc, seen, pending,
                   cur, got, lastSet, ncalls, reads>>

\* `if feedback_csv is not None: self._create_feedback_records(feedback_csv)`:
\* a longIn record for each line, and the BPM ENABLED waveform
CreateFeedbackRecords(csv) ==
    /\ srv.pc = "create_feedback"
    /\ srv' = IF ~csv.given
              THEN [srv EXCEPT !.pc = "create_mirror"]
              ELSE LET keys == csv.lines \cup {<<0, "bpm_enabled">>}
                       rec(k) == <<"FB", k[1], k[2]>>
                   IN  [srv EXCEPT
                          !.pc = "create_mirror",
                          !.feedback = [k \in keys |-> rec(k)],
                          !.value = [r \in {rec(k) : k \in keys} |-> <<0>>] @@ @]
    /\ UNCHANGED <<ring, fields, new_changes, twiss, threads, wpc, seen, pending,
                   cur, got, lastSet, ncalls, reads>>

\* `if mirror_csv is not None: self._create_mirror_records(mirror_csv)`:
\* record_names[line['original']] raises KeyError for a name that is neither
\* an in record's nor a feedback record's
CreateMirrorRecords(csv) ==
    /\ srv.pc = "create_mirror"
    /\ srv' = IF ~csv.given
              THEN [srv EXCEPT !.pc = "serving"]
              ELSE LET names == DOMAIN srv.in_records
                                  \cup {srv.feedback[k] : k \in DOMAIN srv.feedback}
                       mir(r) == <<"MIRROR", r[2], r[3]>>
                   IN  IF csv.lines \subseteq names
                       THEN [srv EXCEPT
                               !.pc = "serving",
                               !.mirrored = [r \in csv.lines |-> mir(r)],
                               !.value = [r \in {mir(o) : o \in csv.lines} |-> <<0>>]
                                           @@ @]
                       ELSE [srv EXCEPT !.pc = "failed", !.exc = "KeyError"]
    /\ UNCHANGED <<ring, fields, new_changes, twiss, threads, wpc, seen, pending,
                   cur, got, lastSet, ncalls, reads>>

\* the element with the writes of a field function done, in order
RECURSIVE ApplyOps(_, _)
ApplyOps(el, ops) ==
    IF ops = <<>> THEN el
    ELSE ApplyOps(IF Head(ops).attr = "new_changes" THEN el
                  ELSE ApplyWrite(el, Head(ops)),
                  Tail(ops))

Signals(ops) == \E i \in DOMAIN ops : ops[i].attr = "new_changes"

\* _on_update as it would be if it set the in record before the lattice
OnUpdateRecordFirst(name, value) ==
    /\ srv.pc = "serving"
    /\ srv.n < MaxCalls
    /\ name \in DOMAIN srv.out_records
    /\ LET in    == srv.out_records[name]
           index == srv.in_records[in][1]
           field == srv.in_records[in][2]
           o     == set_value(fields[index], field, ring[index], twiss, value)
           done  == [srv EXCEPT
                       !.n = @ + 1,
                       !.last = [op |-> "on_update", key |-> name,
                                 value |-> value, exc |-> o.exc],
                       !.value = (name :> <<value>>) @@ @]
       IN  /\ srv' = [done EXCEPT !.value = (in :> <<value>>) @@ @]
           /\ ring' = IF o.exc # "" THEN ring
                      ELSE [ring EXCEPT ![index] = ApplyOps(@, o.ops)]
           /\ new_changes' = IF o.exc = "" /\ Signals(o.ops) THEN TRUE
                             ELSE new_changes
    /\ UNCHANGED <<fields, twiss, threads, wpc, seen, pending, cur, got, lastSet,
                   ncalls, reads>>

\* _on_update(name, value), called once the out record `name` has been
\* processed with value: the element's set_value, then the in record, then
\* the in record's mirror.  An exception of set_value leaves the callback.
OnUpdate(name, value) ==
    /\ srv.pc = "serving"
    /\ srv.n < MaxCalls
    /\ name \in DOMAIN srv.out_records
    /\ LET in    == srv.out_records[name]
           index == srv.in_records[in][1]
           field == srv.in_records[in][2]
           o     == set_value(fields[index], field, ring[index], twiss, value)
           done  == [srv EXCEPT
                       !.n = @ + 1,
                       !.last = [op |-> "on_update", key |-> name,
                                 value |-> value, exc |-> o.exc],
                       !.value = (name :> <<value>>) @@ @]
       IN  /\ srv' = IF o.exc # "" THEN done
                     ELSE [done EXCEPT
                             !.value =
                                 (IF in \in DOMAIN srv.mirrored
                                  THEN (srv.mirrored[in] :> <<value>>)
                                  ELSE <<>>)
                                 @@ (in :> <<value>>) @@ @]
           /\ ring' = IF o.exc # "" THEN ring
                      ELSE [ring EXCEPT ![index] = ApplyOps(@, o.ops)]
           /\ new_changes' = IF o.exc = "" /\ Signals(o.ops) THEN TRUE
                             ELSE new_changes
    /\ UNCHANGED <<fields, twiss, threads, wpc, seen, pending, cur, got, lastSet,
                   ncalls, reads>>

\* self.lattice[n]: the Pytac lattice indexes its list of elements, from 0
LatticeGetItem(n) ==
    IF n \in (-NElements)..(NElements - 1) THEN "" ELSE "IndexError"

\* set_feedback_record(index, field, value).  The message of the element's
\* FieldException is formatted with self.lattice[index].
SetFeedbackRecord(index, field, value) ==
    /\ srv.pc = "serving"
    /\ srv.n < MaxCalls
    /\ LET key == <<index, field>>
           exc == IF key \in DOMAIN srv.feedback THEN ""
                  ELSE IF index = 0 THEN "FieldException"
                  ELSE IF LatticeGetItem(index) # "" THEN LatticeGetItem(index)
                  ELSE "FieldException"
           done == [srv EXCEPT
                      !.n = @ + 1,
                      !.last = [op |-> "set_feedback", key |-> key,
                                value |-> value, exc |-> exc]]
       IN  srv' = IF exc # "" THEN done
                  ELSE [done EXCEPT !.value = (srv.feedback[key] :> <<value>>) @@ @]
    /\ UNCHANGED <<ring, fields, new_changes, twiss, threads, wpc, seen, pending,
                   cur, got, lastSet, ncalls, reads>>

\* the server constructed over a lattice, then its callbacks
ServerInit ==
    /\ DataInit({1}, Lengths, ServerFields)
    /\ srv \in {NewServer(b, sp) : b \in BendSets, sp \in SetpointFields}

\* the names the callbacks are called with
FeedbackFields == {"enabled", "bpm_enabled", "nofield"}

ServerNext ==
    \/ CreateRecords
    \/ \E csv \in FeedbackCsvs : CreateFeedbackRecords(csv)
    \/ \E csv \in MirrorCsvs : CreateMirrorRecords(csv)
    \/ \E e \in Elements, f \in {"b0", "b1", "x", "f"}, v \in Numbers :
          OnUpdate(<<"SP", e, f>>, v)
    \/ \E i \in 0..NElements, f \in FeedbackFields, v \in Numbers :
          SetFeedbackRecord(i, f, v)

ServerSpec == ServerInit /\ [][ServerNext]_vars

----------------------------------------------------------------------------
(* Properties of the recalculation threads *)

\* the published twiss data is the engine's result for the ring as it is now
Fresh == \A k \in TwissParts : twiss[k].lat = ring

\* C1: no lost update.  Under fair scheduling, once the caller has stopped
\* mutating, the published twiss data is from then on the engine's result for
\* the ring as the last mutation left it (unless the engine failed).
C1_NoLostUpdate ==
    (<>[]Fresh) \/ <>(\E t \in Threads : wpc[t] = "dead")

C3_WorkerRetriesAfterFailure ==
    \A t \in Threads : t <= threads => wpc[t] \in {"check", "get_twiss", "clear"}

\* C4: snapshot atomicity.  What get_twiss returns, and what is published, is
\* the whole result of one get_twiss call of the engine: all four parts come
\* from the same call on the same lattice.
C4_SnapshotAtomicity ==
    \A k \in TwissParts : got[k] = got[0] /\ twiss[k] = twiss[0]

\* C4's case: a reader has been handed a tuple a thread published, and a
\* thread has published another since
C4_Witness ==
    /\ got[0].by \in Threads
    /\ twiss[0].by \in Threads
    /\ twiss[3].lat # got[3].lat

\* C5: the dirty flag.  A set_value that has written to the lattice returns
\* with new_changes just set; and new_changes goes from true to false only in
\* the step of a thread that ends its recalculation (its get_twiss call has
\* returned and been stored).
C5_DirtyFlag ==
    [][/\ (cur.status = "running" /\ cur'.status = "returned" /\ cur'.writes > 0)
            => new_changes' = TRUE
       /\ (new_changes = TRUE /\ new_changes' = FALSE)
            => \E t \in Threads : wpc[t] = "clear" /\ wpc'[t] = "check"]_vars

\* C5's case: the flag has been cleared by a thread after a set_value that
\* wrote to the lattice had returned
C5_Witness ==
    /\ cur.op = "set"
    /\ cur.status = "returned"
    /\ cur.writes > 0
    /\ new_changes = FALSE

----------------------------------------------------------------------------
(* Properties of the data sources *)

\* the fields set_value can write
MutableFields == {"x_kick", "y_kick", "a1", "b0", "b1", "b2", "f"}

\* the element attribute a field is named after
NamedAttr(el, field) ==
    CASE field = "a1"     -> el.PolynomA[1]
      [] field = "b0"     -> el.PolynomB[0]
      [] field = "b1"     -> el.PolynomB[1]
      [] field = "b2"     -> el.PolynomB[2]
      [] field = "f"      -> el.Frequency
      [] field = "x_kick" -> el.KickAngle[0]
      [] field = "y_kick" -> el.KickAngle[1]

\* the caller's last call was op on a field its element adapter declares
ElementCallOf(c, op) ==
    /\ c.op = op
    /\ c.target \in Elements
    /\ c.field \in fields[c.target]

\* the step is the caller making a call
IsCall == ncalls' # ncalls

\* C6 as stated: every set_value on a mutable field that returns has set
\* new_changes exactly once.
C6_SignalsOnceAnyValue ==
    (ElementCallOf(cur, "set") /\ cur.field \in MutableFields
        /\ cur.status = "returned")
    => cur.signals = 1

\* C6, amended: every set_value on a mutable field with a value other than
\* None (the field functions' mark of a read) that returns has set new_changes
\* exactly once, the quadrupole's two writes included.
C6_SignalsOnce ==
    (ElementCallOf(cur, "set") /\ cur.field \in MutableFields
        /\ cur.status = "returned" /\ cur.arg # None)
    => cur.signals = 1 /\ new_changes = TRUE

\* C6's case: b1 set on the quadrupole, K and PolynomB[1] both written
C6_Witness ==
    /\ ElementCallOf(cur, "set")
    /\ ring[cur.target].Class = "Quadrupole"
    /\ cur.field = "b1"
    /\ cur.status = "returned"
    /\ cur.writes = 2
    /\ cur.signals = 1

\* C7: get_value and set_value of a field the element adapter does not
\* declare raise FieldException; no attribute is written, new_changes is not
\* set and the published twiss data stays.
C7_UnknownField ==
    [][(IsCall /\ cur'.op \in {"get", "set"} /\ cur'.target \in Elements
            /\ cur'.field \notin fields[cur'.target])
       => /\ cur'.status = "raised"
          /\ cur'.exc = "FieldException"
          /\ pending' = <<>>
          /\ UNCHANGED <<ring, new_changes, twiss, fields>>]_vars

\* C7's case: a field of the dispatch table, set on an adapter that does not
\* declare it
C7_Witness ==
    /\ cur.op = "set"
    /\ cur.target \in Elements
    /\ cur.field = "b1"
    /\ cur.field \notin fields[cur.target]
    /\ cur.arg # None
    /\ cur.exc = "FieldException"

\* C8 as stated: set_value on a declared orbit field always raises
\* HandleException, writes no attribute and does not set new_changes.
C8_OrbitReadOnlyAnyValue ==
    [][(IsCall /\ ElementCallOf(cur', "set") /\ cur'.field \in {"x", "y"})
       => /\ cur'.status = "raised"
          /\ cur'.exc = "HandleException"
          /\ pending' = <<>>
          /\ UNCHANGED <<ring, new_changes, twiss>>]_vars

\* C8, amended: set_value on a declared orbit field with a value other than
\* None raises HandleException, writes no attribute and does not set
\* new_changes.
C8_OrbitReadOnly ==
    [][(IsCall /\ ElementCallOf(cur', "set") /\ cur'.field \in {"x", "y"}
            /\ cur'.arg # None)
       => /\ cur'.status = "raised"
          /\ cur'.exc = "HandleException"
          /\ pending' = <<>>
          /\ UNCHANGED <<ring, new_changes, twiss>>]_vars

\* C8's case: the set of an orbit field has raised HandleException
C8_Witness ==
    /\ ElementCallOf(cur, "set")
    /\ cur.field \in {"x", "y"}
    /\ cur.arg = 0
    /\ cur.exc = "HandleException"

\* C9: on the lattice data source, set_value(field, value) raises
\* HandleException for every field and value.
C9_LatticeSetReadOnly ==
    (cur.op = "set" /\ cur.target = 0 /\ cur.nargs = 2)
    => cur.exc = "HandleException"

\* the set the caller's last get_value reads back
ReadsBack ==
    /\ ElementCallOf(cur, "get")
    /\ cur.status = "returned"
    /\ cur.field \in MutableFields
    /\ lastSet.target = cur.target
    /\ lastSet.field = cur.field

\* the caller's last call was a set_value on a mutable field that returned
HasSet ==
    /\ ElementCallOf(cur, "set")
    /\ cur.status = "returned"
    /\ cur.field \in MutableFields

\* a kick field of a sextupole: kept as a coefficient, not in KickAngle
IsDerived(e, field) ==
    ring[e].Class = "Sextupole" /\ field \in {"x_kick", "y_kick"}

\* C10 as stated: on every element class, set_value(f, v) writes v to the
\* attribute f is named after, and the next get_value(f) returns v.
C10_RoundTripAnyClassAnyValue ==
    /\ HasSet => NamedAttr(ring[cur.target], cur.field) = cur.arg
    /\ ReadsBack => cur.ret = <<lastSet.arg>>

\* C10, amended: for a value v other than None, set_value(f, v) writes v to
\* the attribute f is named after and the next get_value(f) returns v, except
\* for x_kick and y_kick on a sextupole, where it writes PolynomB[0] = -v/Length
\* and PolynomA[0] = v/Length and leaves KickAngle alone.
C10_RoundTrip ==
    /\ (HasSet /\ cur.arg # None) =>
          LET el == ring[cur.target]
          IN  IF IsDerived(cur.target, cur.field)
              THEN /\ cur.field = "x_kick" =>
                          el.PolynomB[0] = FlDiv(-cur.arg, el.Length)
                   /\ cur.field = "y_kick" =>
                          el.PolynomA[0] = FlDiv(cur.arg, el.Length)
                   /\ el.KickAngle = [c \in 0..1 |-> 0]
              ELSE NamedAttr(el, cur.field) = cur.arg
    /\ (ReadsBack /\ lastSet.arg # None /\ ~IsDerived(cur.target, cur.field))
          => cur.ret = <<lastSet.arg>>

\* C10's case: y_kick set to a number on the quadrupole and read back
C10_Witness ==
    /\ ReadsBack
    /\ ring[cur.target].Class = "Quadrupole"
    /\ cur.field = "y_kick"
    /\ lastSet.arg = 7
    /\ cur.ret = <<7>>

----------------------------------------------------------------------------
(* Properties of reads *)

\* the field is read out of the tuple get_twiss returns
SnapshotDerived(target, field) ==
    IF target = 0 THEN field # "energy" ELSE field \in {"x", "y"}

\* reads i and i + 1 are two get_value calls of the same field with no
\* set_value of the caller between them, begun or in progress
ConsecutiveReads(i) ==
    /\ i \in 1..(Len(reads) - 1)
    /\ reads[i].target = reads[i + 1].target
    /\ reads[i].field = reads[i + 1].field
    /\ reads[i].at = reads[i + 1].at
    /\ ~reads[i].busy

\* C11 as stated: two consecutive get_value(f) calls with no set_value between
\* them return equal values, whatever the threads do between the two.
C11_ReadIdempotentAnyWorker ==
    \A i \in 1..MaxReads :
        ConsecutiveReads(i) =>
            reads[i].exc = reads[i + 1].exc /\ reads[i].ret = reads[i + 1].ret

\* C11, amended: two consecutive get_value(f) calls with no set_value between
\* them return equal values, provided that, for a field read out of the
\* published twiss data, no thread has published between the two reads.
C11_ReadIdempotent ==
    \A i \in 1..MaxReads :
        (/\ ConsecutiveReads(i)
         /\ SnapshotDerived(reads[i].target, reads[i].field)
                => reads[i].tw = reads[i + 1].tw)
        => reads[i].exc = reads[i + 1].exc /\ reads[i].ret = reads[i + 1].ret

\* C11's case: the orbit read twice out of twiss data a thread published
\* after a set_value, with a step of a thread since the first read
C11_Witness ==
    /\ ConsecutiveReads(1)
    /\ reads[1].target = 1
    /\ reads[1].field = "x"
    /\ reads[1].tw[3].by \in Threads
    /\ reads[1].tw[3].lat[1].K = 7
    /\ reads[1].tw = reads[2].tw
    /\ reads[1].ret = reads[2].ret

----------------------------------------------------------------------------
(* Properties of the field functions *)

\* the caller's last call was set_value('b1', v) on the quadrupole's adapter,
\* and it has returned
QuadB1Set ==
    /\ ElementCallOf(cur, "set")
    /\ ring[cur.target].Class = "Quadrupole"
    /\ cur.field = "b1"
    /\ cur.status = "returned"

\* C12 as stated: on a Quadrupole, set_value('b1', v) leaves PolynomB[1] = v
\* and K = v, for every v.
C12_DualWriteAnyValue ==
    QuadB1Set => /\ ring[cur.target].PolynomB[1] = cur.arg
                 /\ ring[cur.target].K = cur.arg

\* C12, amended: on a Quadrupole, set_value('b1', v) leaves PolynomB[1] = v
\* and K = v, for every v other than None (with None nothing is written).
C12_DualWrite ==
    (QuadB1Set /\ cur.arg # None) => /\ ring[cur.target].PolynomB[1] = cur.arg
                                     /\ ring[cur.target].K = cur.arg

\* C12's case: b1 set to a number that both attributes did not hold before
C12_Witness ==
    /\ QuadB1Set
    /\ cur.arg = 7
    /\ ring[cur.target].K = 7
    /\ ring[cur.target].PolynomB = [c \in 0..2 |-> IF c = 1 THEN 7 ELSE 0]

KickFields == {"x_kick", "y_kick"}

\* the axis of KickAngle a kick field is named after
KickAxis(field) == IF field = "x_kick" THEN 0 ELSE 1

\* what get_value and set_value of a kick field come to, the element being el:
\* on a Sextupole the coefficient times Length and the quotient by Length, on
\* any other class the cell of KickAngle
KickRead(el, field) ==
    IF el.Class = "Sextupole"
    THEN IF field = "x_kick" THEN FlMul(-el.PolynomB[0], el.Length)
                             ELSE FlMul(el.PolynomA[0], el.Length)
    ELSE el.KickAngle[KickAxis(field)]

KickStored(el, field, v) ==
    IF el.Class = "Sextupole"
    THEN IF field = "x_kick" THEN el.PolynomB[0] = FlDiv(-v, el.Length)
                             ELSE el.PolynomA[0] = FlDiv(v, el.Length)
    ELSE el.KickAngle[KickAxis(field)] = v

\* C13: the kick fields dispatch on the element class.  On a Sextupole
\* get_value returns -PolynomB[0]*Length for x_kick and PolynomA[0]*Length for
\* y_kick, set_value with a number v stores PolynomB[0] = -v/Length and
\* PolynomA[0] = v/Length, and no step of the call changes KickAngle; on any
\* other class they read and write KickAngle[0] and KickAngle[1], and no step
\* of the call changes PolynomA or PolynomB.
C13_KickDispatch ==
    /\ [](/\ (ElementCallOf(cur, "get") /\ cur.field \in KickFields
                /\ cur.status = "returned")
              => cur.ret = <<KickRead(ring[cur.target], cur.field)>>
          /\ (HasSet /\ cur.field \in KickFields /\ cur.arg # None)
              => KickStored(ring[cur.target], cur.field, cur.arg))
    /\ [][(cur'.op = "set" /\ cur'.target \in Elements
             /\ cur'.field \in KickFields)
          => LET e == cur'.target
             IN  IF ring[e].Class = "Sextupole"
                 THEN ring'[e].KickAngle = ring[e].KickAngle
                 ELSE /\ ring'[e].PolynomA = ring[e].PolynomA
                      /\ ring'[e].PolynomB = ring[e].PolynomB]_vars

\* C13's case: x_kick set to a number on the sextupole and read back out of
\* the coefficient, KickAngle holding another value
C13_Witness ==
    /\ ElementCallOf(cur, "get")
    /\ cur.status = "returned"
    /\ cur.field = "x_kick"
    /\ ring[cur.target].Class = "Sextupole"
    /\ lastSet = [target |-> cur.target, field |-> "x_kick", arg |-> 7]
    /\ ring[cur.target].PolynomB[0] = FlDiv(-7, ring[cur.target].Length)
    /\ cur.ret # <<ring[cur.target].KickAngle[0]>>

\* C20: the declared fields of an element adapter are fixed at construction.
\* get_fields returns the fields the constructor was given, and no step of a
\* get_value or set_value call, returning or raising, on any adapter changes
\* the declared fields of any adapter.
C20_FieldsFixed ==
    /\ [](cur.op = "get_fields" => cur.ret = <<fields[cur.target]>>)
    /\ [][fields' = fields]_vars

\* C20's case: get_fields after a set_value that wrote, on an adapter that
\* declares fewer fields than the dispatch table has
C20_Witness ==
    /\ cur.op = "get_fields"
    /\ ring[cur.target].Frequency = 7
    /\ cur.ret = <<{"x", "f"}>>

----------------------------------------------------------------------------
(* Properties of calls made while the threads run *)

\* C14: field I/O never waits on recalculation.  In every reachable state,
\* threads inside get_twiss or not, a call in progress can do its next write
\* and a caller between calls can make get_value, set_value and get_twiss,
\* none of which needs a step of a thread; get_value and get_twiss return
\* in the step that makes them, and get_twiss returns the tuple last stored.
C14_NeverWaits ==
    /\ [](/\ cur.status = "running" => ENABLED CallStep
          /\ (cur.status # "running" /\ ncalls < MaxCalls) =>
                /\ ENABLED GetTwiss
                /\ \A e \in EngineElements, f \in EngineFields :
                      /\ ENABLED ElementGet(e, f)
                      /\ \A v \in EngineValues : ENABLED ElementSet(e, f, v))
    /\ [][(IsCall /\ cur'.op \in {"get", "get_twiss"})
          => /\ cur'.status # "running"
             /\ cur'.op = "get_twiss" => got' = twiss
             /\ UNCHANGED <<wpc, seen, twiss, new_changes>>]_vars

\* C14's case: a set_value has written and returned while a thread was
\* inside get_twiss, and the thread is still there
C14_Witness ==
    \E t \in Threads :
        /\ wpc[t] = "get_twiss"
        /\ cur.op = "set"
        /\ cur.status = "returned"
        /\ cur.writes = 2
        /\ seen[t] # ring

\* C18: storing the new twiss data and clearing new_changes are one atomic
\* step of a thread.  No set_value's `new_changes = True` lands after a thread
\* has stored its result and before it clears the flag, to be erased by that
\* clear: a thread that had stored and not yet cleared when the signal of the
\* caller's last set_value landed has not gone on to clear the flag.
C18_PublishAndClearAtomic ==
    \A t \in cur.landed : wpc[t] = "clear"

\* a lattice in which no set_value('b1', v) on a quadrupole is half applied:
\* K and PolynomB[1] are written by the same calls only, with the same value
WholeSets(lat) ==
    \A e \in EngineElements : lat[e].K = lat[e].PolynomB[1]

\* C19: each set_value is atomic for the recalculation.  No get_twiss call of
\* a thread reads, and so none publishes the result of, a quadrupole with the
\* new K and the old PolynomB[1].
C19_SetAtomicForEngine ==
    /\ \A t \in Computing : WholeSets(seen[t])
    /\ \A k \in TwissParts : WholeSets(twiss[k].lat)

----------------------------------------------------------------------------
(* Properties of the ATIPServer *)

\* _create_records has returned
Created == srv.pc \in {"create_feedback", "create_mirror", "serving"}

\* C15: after _create_records, every out record has its in record: every
\* value of _out_records is a key of _in_records, and none of them is in
\* _rb_only_records.
C15_OutHasIn ==
    Created =>
        \A name \in DOMAIN srv.out_records :
            /\ srv.out_records[name] \in DOMAIN srv.in_records
            /\ \A i \in DOMAIN srv.rb_only : srv.rb_only[i] # srv.out_records[name]

\* C15's case: records made for a lattice with bends, with out records, with
\* readback-only element records and the lattice's
C15_Witness ==
    /\ Created
    /\ srv.bends = {1, 3}
    /\ <<"SP", 1, "b0">> \in DOMAIN srv.out_records
    /\ <<"SP", 2, "b1">> \in DOMAIN srv.out_records
    /\ Len(srv.rb_only) = 2
    /\ srv.rb_only[1] = <<"RB", 2, "x">>

\* the step is the callback _on_update(name, value)
IsOnUpdate(name, value) ==
    /\ srv.pc = "serving"
    /\ srv'.n = srv.n + 1
    /\ srv'.last.op = "on_update"
    /\ srv'.last.key = name
    /\ srv'.last.value = value

C17_FeedbackUnknownField ==
    (/\ srv.pc = "serving"
     /\ srv.last.op = "set_feedback"
     /\ srv.last.key \notin DOMAIN srv.feedback)
    => srv.last.exc = "FieldException"

----------------------------------------------------------------------------
(* Further properties of the data sources *)

\* C21: every declared field resolves in the dispatch table.  get_value of a
\* field the element adapter declares, 'a0' included, returns a value or
\* raises FieldException or HandleException, and fails in no other way.
C21_DeclaredFieldResolves ==
    (ElementCallOf(cur, "get") /\ cur.status # "running")
    => cur.exc \in {"", "FieldException", "HandleException"}

\* C22: quadrupole strength consistency.  Between calls, K = PolynomB[1] on
\* the quadrupole, whatever set_value calls have been made on its fields; a
\* set of b0 or b2 leaves K as it was.
C22_StrengthConsistent ==
    cur.status # "running" =>
        \A e \in Elements :
            ring[e].Class = "Quadrupole" => ring[e].K = ring[e].PolynomB[1]

\* the cell of closed_orbit an orbit field reads
OrbitCell(field) == IF field = "x" THEN 0 ELSE 2

----------------------------------------------------------------------------
(* Further properties of the recalculation threads *)

\* no thread is between its test of the flag and its clearing of it
NoneRecalculating == \A t \in Threads : wpc[t] \notin {"get_twiss", "clear"}

\* C25: cache coherence.  Whenever new_changes is false, no thread is inside
\* a recalculation and no set_value is part-way through, the published twiss
\* data is the physics of the lattice as it is.
C25_CacheCoherence ==
    (new_changes = FALSE /\ NoneRecalculating /\ cur.status # "running")
    => Fresh

\* how many of the attribute writes of the calls made so far a lattice has:
\* the callers write values of EngineValues over the initial 0, K first and
\* PolynomB[1] after it, so a lattice read earlier has no more than one read
\* later
Age(lat) ==
    Cardinality({e \in Elements : lat[e].K \in EngineValues})
      + Cardinality({e \in Elements : lat[e].PolynomB[1] \in EngineValues})

\* C26: freshness is monotonic.  With two threads or more, a store into
\* self._twiss never replaces the published data by data computed from an
\* older state of the lattice.
C26_FreshnessMonotonic ==
    [][threads >= 2 => Age(twiss'[3].lat) >= Age(twiss[3].lat)]_vars

----------------------------------------------------------------------------
(* A further property of the server *)

\* C27: the bends share one setpoint.  When _on_update of the bend setpoint
\* record has returned, every BEND element holds the written value as its
\* b0, the first bend and the others alike.
C27_SharedBendSetpoint ==
    (/\ srv.pc = "serving"
     /\ srv.last.op = "on_update"
     /\ srv.last.exc = ""
     /\ srv.last.key[3] = "b0"
     /\ srv.last.key[2] \in srv.bends)
    => \A b \in srv.bends : ring[b].PolynomB[0] = srv.last.value

----------------------------------------------------------------------------
(* A property of start-up *)

\* the flag is down, no thread is recalculating, and the published data is
\* the physics of the lattice
Quiescent == new_changes = FALSE /\ NoneRecalculating /\ Fresh

\* C24: start-up quiescence.  From construction (self._twiss computed in
\* __init__, new_changes true), with no set_value ever called and get_twiss
\* calls that return, every fair execution with a pool of one thread or more
\* reaches, and then never leaves, a state in which new_changes is false, no
\* thread is recalculating and the published data is the physics of the
\* initial lattice; and get_twiss always returns such data, never nothing.
C24_StartupQuiescence ==
    /\ <>[]Quiescent
    /\ [](/\ \E by \in 0..threads : twiss = Physics(by, ring)
          /\ \E by \in 0..threads : got = Physics(by, ring))
    /\ [][ring' = ring]_vars

\* C24's case: two threads have each recalculated, the second one published
\* last, all is quiet and a reader has been handed that thread's data
C24_Witness ==
    /\ threads >= 2
    /\ Quiescent
    /\ twiss[3].by = 2
    /\ cur.op = "get_twiss"
    /\ cur.status = "returned"
    /\ got = twiss

====
